---- MODULE Spec2Model ----
(***************************************************************************)
(* Model of src/server.js: an Express proxy in front of the IMLeagues API. *)
(* The process holds one mutable record, auth (the Session), and serves    *)
(* four routes.  Every handler is an async function: it runs atomically    *)
(* up to an await of an outbound fetch, and is resumed when that fetch     *)
(* settles, so concurrent requests interleave at exactly those points.     *)
(***************************************************************************)
EXTENDS Integers, Sequences, FiniteSets, TLC

(***************************************************************************)
(* Bounds of the model.                                                    *)
(***************************************************************************)
\* number of request slots: the requests that can be in progress at once
NumReq == 2
\* Date.now() takes the values 1..MaxTime
MaxTime == 2

(***************************************************************************)
(* JavaScript values.                                                      *)
(***************************************************************************)
Undefined == "<undefined>"
Null == "<null>"

\* JS truthiness of a string-or-absent value: !v is true for undefined, null, ""
Truthy(v) == v \notin {Undefined, Null, ""}

\* a ?? b
Coalesce(a, b) == IF a \in {Undefined, Null} THEN b ELSE a

\* res.ok of a fetch Response: status in 200..299
ResOk(status) == status >= 200 /\ status <= 299

IML_BASE == "https://api.imleagues.com/"

(***************************************************************************)
(* Process configuration (process.env), fixed once the process starts.     *)
(***************************************************************************)
EnvNames == {"IML_EMAIL", "IML_PASSWORD", "IML_SCHOOL_ID", "IML_NETWORK_ID"}

\* a variable can be unset, set to the empty string, or set to a value
Config(email, password, schoolId, networkId) ==
    [n \in EnvNames |->
        CASE n = "IML_EMAIL" -> email
          [] n = "IML_PASSWORD" -> password
          [] n = "IML_SCHOOL_ID" -> schoolId
          [] OTHER -> networkId]

\* the configurations explored: everything set, and each variable in turn
\* unset or empty
Configurations ==
    { Config("x", "x", "x", "x"),
      Config(Undefined, "x", "x", "x"),
      Config("x", "", "x", "x"),
      Config("x", "x", Undefined, "x"),
      Config("x", "x", "x", Undefined) }

(***************************************************************************)
(* Tagged JavaScript values, for fields that hold values of several types. *)
(***************************************************************************)
JUndef == [t |-> "undefined"]
JNum(n) == [t |-> "number", n |-> n]
JStr(s) == [t |-> "string", s |-> s]

\* v ?? "" for a tagged value
OrEmpty(v) == IF v.t = "undefined" THEN JStr("") ELSE v

\* String(v ?? "") for a tagged value
StringOrEmpty(v) ==
    CASE v.t = "undefined" -> ""
      [] v.t = "number" -> ToString(v.n)
      [] OTHER -> v.s

(***************************************************************************)
(* JSON texts the external authority may send, and JSON.parse on them.     *)
(* A parsed value is [t, src, jwtTokenForSPA, jwtTokenIndexForSPA]; the    *)
(* two token fields are Undefined where the object has no such key.        *)
(***************************************************************************)
TxtEmpty == ""
TxtNull == "null"
TxtHtml == "<html>Bad Gateway</html>"
TxtObj == "{\"games\":[]}"
TxtT1 == "{\"jwtTokenForSPA\":\"T1\"}"
TxtT2 == "{\"jwtTokenForSPA\":\"T2\",\"jwtTokenIndexForSPA\":\"I2\"}"
TxtEmptyTok == "{\"jwtTokenForSPA\":\"\",\"jwtTokenIndexForSPA\":\"I0\"}"

JsonValue(t, src, tok, idx) ==
    [t |-> t, src |-> src, jwtTokenForSPA |-> tok, jwtTokenIndexForSPA |-> idx]

JsonNull == JsonValue("null", TxtNull, Undefined, Undefined)

\* JSON.parse(text): [threw, value]
JsonParse(text) ==
    CASE text = TxtNull -> [threw |-> FALSE, value |-> JsonNull]
      [] text = TxtObj ->
           [threw |-> FALSE,
            value |-> JsonValue("object", text, Undefined, Undefined)]
      [] text = TxtT1 ->
           [threw |-> FALSE, value |-> JsonValue("object", text, "T1", Undefined)]
      [] text = TxtT2 ->
           [threw |-> FALSE, value |-> JsonValue("object", text, "T2", "I2")]
      [] text = TxtEmptyTok ->
           [threw |-> FALSE, value |-> JsonValue("object", text, "", "I0")]
      [] OTHER -> [threw |-> TRUE, value |-> JsonNull]

\* JSON.stringify of a parsed value (the texts above are in canonical form)
JsonStringify(v) == IF v.t = "null" THEN "null" ELSE v.src

\* v === null || v === undefined, for a parsed value
IsNullish(v) == v.t \in {"null", "undefined"}

(***************************************************************************)
(* What a fetch can settle with: a rejection (network failure) or a        *)
(* response with a status and a body text.                                 *)
(***************************************************************************)
Rejection == [kind |-> "reject", status |-> 0, text |-> TxtEmpty]
Response(status, text) == [kind |-> "response", status |-> status, text |-> text]
NoOutcome == [kind |-> "none", status |-> 0, text |-> TxtEmpty]

\* the login endpoint: a network failure, a refusal, a success whose body
\* is no JSON or holds no token or an empty one, and two successes with a
\* token (the second with an index token too)
LoginOutcomes ==
    { Rejection, Response(401, TxtObj),
      Response(200, TxtHtml), Response(200, TxtObj), Response(200, TxtEmptyTok),
      Response(200, TxtT1), Response(200, TxtT2) }

\* the other endpoints: a network failure, a refusal, and a success with a
\* JSON object, the JSON literal null, a body that is no JSON, or no body
ApiOutcomes ==
    { Rejection, Response(401, TxtHtml),
      Response(200, TxtObj), Response(200, TxtNull),
      Response(200, TxtHtml), Response(200, TxtEmpty) }

(***************************************************************************)
(* Inputs of the inbound requests.                                         *)
(***************************************************************************)
\* :gameId as the characters of the path segment
GameIds == { <<"4", "2">>, <<"a", "b", "c">> }

DigitChars == {"0", "1", "2", "3", "4", "5", "6", "7", "8", "9"}

DigitVal(c) ==
    CASE c = "0" -> 0 [] c = "1" -> 1 [] c = "2" -> 2 [] c = "3" -> 3
      [] c = "4" -> 4 [] c = "5" -> 5 [] c = "6" -> 6 [] c = "7" -> 7
      [] c = "8" -> 8 [] OTHER -> 9

RECURSIVE DecimalValue(_)
DecimalValue(s) ==
    IF s = <<>> THEN 0
    ELSE 10 * DecimalValue(SubSeq(s, 1, Len(s) - 1)) + DigitVal(s[Len(s)])

\* Number(str) on a run of decimal digits, on the literal Infinity, and on
\* text that is no number (NaN).  The empty segment cannot occur in a path
\* parameter; signs, fractions, exponents and hex are not drawn.
ToNumber(s) ==
    CASE s = <<"I", "n", "f", "i", "n", "i", "t", "y">> ->
           [kind |-> "Infinity", n |-> 0]
      [] s # <<>> /\ \A i \in 1..Len(s) : s[i] \in DigitChars ->
           [kind |-> "finite", n |-> DecimalValue(s)]
      [] OTHER -> [kind |-> "NaN", n |-> 0]

\* Number.isFinite(x)
NumberIsFinite(x) == x.kind = "finite"

\* req.body of a score submission, after express.json()
SaveBody(gameType, s1, s2, comments) ==
    [gameType |-> gameType, team1Score |-> s1, team2Score |-> s2,
     comments |-> comments]

SaveBodies ==
    { SaveBody(JNum(1), JNum(21), JUndef, JStr("OT")),
      SaveBody(JUndef, JNum(21), JNum(19), JUndef) }

\* req.query.start / req.query.end: absent, or an ISO datetime
QueryValues == {Undefined, "2024-01-01T00:00:00Z"}

TeamIds == {"7"}

\* encodeURIComponent on the strings that reach it
EncodeURIComponent(v) ==
    IF v = "2024-01-01T00:00:00Z" THEN "2024-01-01T00%3A00%3A00Z" ELSE v

Request(route, start, end, teamId, gameId, body) ==
    [route |-> route, start |-> start, end |-> end, teamId |-> teamId,
     gameId |-> gameId, body |-> body]

NoBody == SaveBody(JUndef, JUndef, JUndef, JUndef)
NoRequest == Request("none", Undefined, Undefined, Undefined, <<>>, NoBody)

(***************************************************************************)
(* State.                                                                  *)
(***************************************************************************)
VARIABLES
    env,       \* process.env
    auth,      \* the Session record
    now,       \* the last value Date.now() returned
    pc,        \* per slot: where the handler of its request stands
    rq,        \* per slot: the inbound request
    held,      \* per slot: whether a Session was held when the request arrived
    logins,    \* per slot: calls of imlAdminLogin() made for the request
    calls,     \* per slot: the outbound fetches issued for the request
    upstream,  \* per slot: what the last fetch settled with
    loginRet,  \* per slot: what imlAdminLogin() returned or threw
    reply      \* per slot: the responses sent for the request

vars ==
    <<env, auth, now, pc, rq, held, logins, calls, upstream, loginRet, reply>>

Req == 1..NumReq

Auth(token, index, at) ==
    [jwtTokenForSPA |-> token, jwtTokenIndexForSPA |-> index, loggedInAt |-> at]

InitAuth == Auth(Null, Null, 0)

\* an Error object: message, and the status / body imlFetch attaches
Err(message, status, body) ==
    [message |-> message, status |-> status, body |-> body]

NoErr == Err(<<>>, 0, JUndef)

\* the outcome of a call of imlAdminLogin(): it returned a, or threw e
NoRet == [state |-> "none", e |-> NoErr, a |-> InitAuth]
LoginReturned(a) == [state |-> "returned", e |-> NoErr, a |-> a]
LoginThrew(e) == [state |-> "threw", e |-> e, a |-> InitAuth]

Init ==
    /\ env \in Configurations
    /\ auth = InitAuth
    /\ now = 1
    /\ pc = [r \in Req |-> "idle"]
    /\ rq = [r \in Req |-> NoRequest]
    /\ held = [r \in Req |-> FALSE]
    /\ logins = [r \in Req |-> 0]
    /\ calls = [r \in Req |-> <<>>]
    /\ upstream = [r \in Req |-> NoOutcome]
    /\ loginRet = [r \in Req |-> NoRet]
    /\ reply = [r \in Req |-> <<>>]

(***************************************************************************)
(* mustEnv and imlAdminLogin.                                              *)
(***************************************************************************)
\* mustEnv(name): throws when the variable is unset or empty
mustEnv(name) ==
    [threw |-> ~Truthy(env[name]), v |-> env[name],
     e |-> Err(<<"Missing env var: ", name>>, 0, JUndef)]

\* as imlAdminLoginEnv, but IML_SCHOOL_ID is required too
imlAdminLoginEnvSchoolRequired ==
    IF mustEnv("IML_EMAIL").threw THEN mustEnv("IML_EMAIL")
    ELSE IF mustEnv("IML_PASSWORD").threw THEN mustEnv("IML_PASSWORD")
    ELSE mustEnv("IML_SCHOOL_ID")

\* the first of the two mustEnv calls of imlAdminLogin that throws, if any
imlAdminLoginEnv ==
    IF mustEnv("IML_EMAIL").threw THEN mustEnv("IML_EMAIL")
    ELSE mustEnv("IML_PASSWORD")

LoginPayload ==
    [schoolId |->
         IF Truthy(env["IML_SCHOOL_ID"]) THEN env["IML_SCHOOL_ID"] ELSE "",
     forAdminSite |-> TRUE, forApp |-> FALSE,
     email |-> env["IML_EMAIL"], password |-> env["IML_PASSWORD"],
     isSSO |-> FALSE, isHttps |-> TRUE, isMobileDevice |-> FALSE,
     isElectron |-> FALSE, clientType |-> 0, timezone |-> -300]

Call(path, url, method, contentType, authorization, body) ==
    [path |-> path, url |-> url, method |-> method,
     headers |-> [ContentType |-> contentType, Authorization |-> authorization],
     body |-> body]

\* the fetch imlAdminLogin issues; <<>> stands for no Authorization header
LoginPath == <<"admin/account/login">>
LoginCall ==
    Call(LoginPath, <<IML_BASE>> \o LoginPath, "POST", "application/json",
         <<>>, LoginPayload)


\* as imlAdminLoginSettle, but a success response is stored without the test
\* for its token
imlAdminLoginSettleUnchecked(o, t) ==
    IF o.kind = "reject" THEN LoginThrew(Err(<<"fetch failed">>, 0, JUndef))
    ELSE LET parsed == JsonParse(o.text)
             data == IF parsed.threw THEN JsonNull ELSE parsed.value
         IN  IF ~ResOk(o.status)
             THEN LoginThrew(Err(<<"IMLeagues login failed (",
                                   ToString(o.status), "): ",
                                   JsonStringify(data)>>, 0, JUndef))
             ELSE LoginReturned(Auth(Coalesce(data.jwtTokenForSPA, Null),
                                     Coalesce(data.jwtTokenIndexForSPA, Null),
                                     t))

\* as imlAdminLoginSettle, but the index token of the Session held is kept
\* when the response has none
imlAdminLoginSettleMerging(o, t) ==
    IF o.kind = "reject" THEN LoginThrew(Err(<<"fetch failed">>, 0, JUndef))
    ELSE LET parsed == JsonParse(o.text)
             data == IF parsed.threw THEN JsonNull ELSE parsed.value
         IN  IF ~ResOk(o.status)
             THEN LoginThrew(Err(<<"IMLeagues login failed (",
                                   ToString(o.status), "): ",
                                   JsonStringify(data)>>, 0, JUndef))
             ELSE IF ~Truthy(data.jwtTokenForSPA)
             THEN LoginThrew(Err(<<"Login succeeded but no jwtTokenForSPA returned: ",
                                   JsonStringify(data)>>, 0, JUndef))
             ELSE LoginReturned(Auth(data.jwtTokenForSPA,
                                     Coalesce(data.jwtTokenIndexForSPA,
                                              auth.jwtTokenIndexForSPA),
                                     t))

\* imlAdminLogin from the settling of its fetch on; t is Date.now()
imlAdminLoginSettle(o, t) ==
    IF o.kind = "reject" THEN LoginThrew(Err(<<"fetch failed">>, 0, JUndef))
    ELSE LET parsed == JsonParse(o.text)
             data == IF parsed.threw THEN JsonNull ELSE parsed.value
         IN  IF ~ResOk(o.status)
             THEN LoginThrew(Err(<<"IMLeagues login failed (",
                                   ToString(o.status), "): ",
                                   JsonStringify(data)>>, 0, JUndef))
             ELSE IF ~Truthy(data.jwtTokenForSPA)
             THEN LoginThrew(Err(<<"Login succeeded but no jwtTokenForSPA returned: ",
                                   JsonStringify(data)>>, 0, JUndef))
             ELSE LoginReturned(Auth(data.jwtTokenForSPA,
                                     Coalesce(data.jwtTokenIndexForSPA, Null),
                                     t))


\* as AuthAfterLogin, but a failed login clears the Session
AuthAfterLoginClearing(ret) == IF ret.state = "returned" THEN ret.a ELSE InitAuth

\* as AuthAfterLogin, but a login that finds a Session already held keeps it
AuthAfterLoginFirstWins(ret) ==
    IF ret.state = "returned" /\ ~Truthy(auth.jwtTokenForSPA) THEN ret.a ELSE auth

\* the Session once imlAdminLogin has settled with ret
AuthAfterLogin(ret) == IF ret.state = "returned" THEN ret.a ELSE auth

(***************************************************************************)
(* imlAuthHeaders and imlFetch.                                            *)
(***************************************************************************)

\* as imlAuthHeaders, but the token is sent without the Bearer scheme
imlAuthHeadersNoScheme ==
    IF ~Truthy(auth.jwtTokenForSPA) THEN <<>> ELSE <<auth.jwtTokenForSPA>>

\* the Authorization header, <<>> when there is none
imlAuthHeaders ==
    IF ~Truthy(auth.jwtTokenForSPA) THEN <<>>
    ELSE <<"Bearer ", auth.jwtTokenForSPA>>

\* path.startsWith("http") ? path : IML_BASE + path.replace(/^\//, "")
\* a path is the sequence of the parts of its template string
ImlUrl(path) ==
    IF Head(path) = IML_BASE THEN path
    ELSE <<IML_BASE>> \o (IF Head(path) = "/" THEN Tail(path) ELSE path)

\* the fetch imlFetch issues
imlFetchCall(path, method, body) ==
    Call(path, ImlUrl(path), method,
         IF body # JUndef THEN "application/json" ELSE Undefined,
         imlAuthHeaders, body)

FetchReturned(value) == [state |-> "returned", e |-> NoErr, value |-> value]
FetchThrew(e) == [state |-> "threw", e |-> e, value |-> JUndef]

\* json ?? text
JsonOrText(json, text) == IF IsNullish(json) THEN JStr(text) ELSE json

\* imlFetch from the settling of its fetch on
imlFetchSettle(path, o) ==
    IF o.kind = "reject" THEN FetchThrew(Err(<<"fetch failed">>, 0, JUndef))
    ELSE LET text == o.text
             json == IF text # "" /\ ~JsonParse(text).threw
                     THEN JsonParse(text).value ELSE JsonNull
         IN  IF ~ResOk(o.status)
             THEN FetchThrew(Err(<<"IMLeagues API error (", ToString(o.status),
                                   ") on ">> \o path \o <<": ", text>>,
                                 o.status, JsonOrText(json, text)))
             ELSE FetchReturned(JsonOrText(json, text))

(***************************************************************************)
(* What a handler does next: send a response, or issue a fetch through     *)
(* imlFetch and await it.                                                  *)
(***************************************************************************)
NoCall == Call(<<>>, <<>>, "", Undefined, <<>>, JUndef)

Respond(status, body) ==
    [kind |-> "respond", status |-> status, body |-> body, call |-> NoCall]
Forward(call) ==
    [kind |-> "fetch", status |-> 0, body |-> [ok |-> FALSE], call |-> call]


\* as OkData, but the payload is sent under the key result
OkDataAsResult(data) == Respond(200, [ok |-> TRUE, result |-> data])

\* res.json(...) without res.status(...) answers 200
OkData(data) == Respond(200, [ok |-> TRUE, data |-> data])


\* as Catch, but the status the error carries becomes the local status
CatchWithStatus(e) ==
    Respond(IF e.status # 0 THEN e.status ELSE 500,
            [ok |-> FALSE, error |-> e.message])

\* the catch block of every route: String(e.message || e), status 500
Catch(e) == Respond(500, [ok |-> FALSE, error |-> e.message])

\* a local validation failure
BadRequest(text) == Respond(400, [ok |-> FALSE, error |-> <<text>>])

\* POST /api/iml/login once imlAdminLogin has settled
LoginRouteReply(ret) ==
    IF ret.state = "returned"
    THEN Respond(200, [ok |-> TRUE,
                       jwtTokenIndexForSPA |->
                           Coalesce(ret.a.jwtTokenIndexForSPA, Null)])
    ELSE Catch(ret.e)

GamesPath(networkId, start, end) ==
    <<"networks/", EncodeURIComponent(networkId), "/games?start=",
      EncodeURIComponent(start), "&end=", EncodeURIComponent(end)>>


\* as GamesHandler, but start and end are not validated
GamesHandlerUnvalidated(start, end) ==
    IF mustEnv("IML_NETWORK_ID").threw THEN Catch(mustEnv("IML_NETWORK_ID").e)
    ELSE Forward(imlFetchCall(GamesPath(mustEnv("IML_NETWORK_ID").v, start, end),
                              "GET", JUndef))

\* GET /api/iml/games up to its await
GamesHandler(start, end) ==
    IF mustEnv("IML_NETWORK_ID").threw THEN Catch(mustEnv("IML_NETWORK_ID").e)
    ELSE IF ~Truthy(start) \/ ~Truthy(end)
    THEN BadRequest("Missing start/end query params (ISO datetime strings).")
    ELSE Forward(imlFetchCall(GamesPath(mustEnv("IML_NETWORK_ID").v, start, end),
                              "GET", JUndef))

MembersPath(teamId) == <<"teams/", EncodeURIComponent(teamId), "/members">>

\* GET /api/iml/teams/:teamId/members up to its await
MembersHandler(teamId) == Forward(imlFetchCall(MembersPath(teamId), "GET", JUndef))


\* as SaveScoreNeedsLogin, but the route logs in on every request
SaveScoreAlwaysLogin == TRUE

\* the test that makes the score route log in first
SaveScoreNeedsLogin == ~Truthy(auth.jwtTokenForSPA)

SaveScorePath == <<"v3/me/games/savescore">>

SaveScorePayload(gameId, body) ==
    [gameResult |-> 1, periodDetails |-> <<>>,
     team1Score |-> StringOrEmpty(body.team1Score),
     team2Score |-> StringOrEmpty(body.team2Score),
     comments |-> OrEmpty(body.comments),
     gameId |-> gameId.n, gameType |-> body.gameType]

\* as SaveScoreHandler, but gameType is not validated
SaveScoreHandlerAnyGameType(gameIdParam, body) ==
    LET gameId == ToNumber(gameIdParam)
    IN  IF ~NumberIsFinite(gameId) THEN BadRequest("Invalid gameId")
        ELSE Forward(imlFetchCall(SaveScorePath, "POST",
                                  SaveScorePayload(gameId, body)))

\* POST /api/iml/games/:gameId/savescore from the validation on
SaveScoreHandler(gameIdParam, body) ==
    LET gameId == ToNumber(gameIdParam)
    IN  IF ~NumberIsFinite(gameId) THEN BadRequest("Invalid gameId")
        ELSE IF body.gameType = JUndef
        THEN BadRequest("Missing gameType (number)")
        ELSE Forward(imlFetchCall(SaveScorePath, "POST",
                                  SaveScorePayload(gameId, body)))

\* a route once its imlFetch has settled
FetchRouteReply(res) ==
    IF res.state = "returned" THEN OkData(res.value) ELSE Catch(res.e)

(***************************************************************************)
(* Actions.                                                                *)
(***************************************************************************)
\* JavaScript runs one handler at a time, and runs the microtask that resumes
\* the caller of imlAdminLogin() before it enters or resumes another handler:
\* while a slot is at loginSettled no other slot takes a step
ThreadFree(r) == \A q \in Req \ {r} : pc[q] # "loginSettled"

\* one answered request at a time is kept for inspection: a slot is answered
\* (or reaches loginSettled) only once the answered request of any other slot
\* has been closed.  Close changes nothing the handlers read, so this orders
\* the bookkeeping only
Collected(r) == \A q \in Req \ {r} : pc[q] \notin {"loginSettled", "done"}

\* a request arrives in a free slot and its handler is entered
Arrive(r, request) ==
    /\ pc[r] = "idle"
    /\ ThreadFree(r)
    /\ rq' = [rq EXCEPT ![r] = request]
    /\ held' = [held EXCEPT ![r] = Truthy(auth.jwtTokenForSPA)]

\* the handler of r carries out step d
Do(r, d) ==
    IF d.kind = "respond"
    THEN /\ Collected(r)
         /\ reply' = [reply EXCEPT ![r] = Append(@, [status |-> d.status,
                                                     body |-> d.body])]
         /\ pc' = [pc EXCEPT ![r] = "done"]
         /\ calls' = calls
    ELSE /\ calls' = [calls EXCEPT ![r] = Append(@, d.call)]
         /\ pc' = [pc EXCEPT ![r] = "awaitFetch"]
         /\ reply' = reply

\* the handler of r calls imlAdminLogin(), which runs to its await of fetch
\* or throws on a missing variable
CallLogin(r) ==
    /\ logins' = [logins EXCEPT ![r] = @ + 1]
    /\ reply' = reply
    /\ IF imlAdminLoginEnv.threw
       THEN /\ Collected(r)
            /\ loginRet' = [loginRet EXCEPT ![r] = LoginThrew(imlAdminLoginEnv.e)]
            /\ pc' = [pc EXCEPT ![r] = "loginSettled"]
            /\ calls' = calls
       ELSE /\ calls' = [calls EXCEPT ![r] = Append(@, LoginCall)]
            /\ pc' = [pc EXCEPT ![r] = "awaitLogin"]
            /\ loginRet' = loginRet

LoginRoute(r) ==
    /\ Arrive(r, Request("login", Undefined, Undefined, Undefined, <<>>, NoBody))
    /\ CallLogin(r)
    /\ UNCHANGED <<env, auth, now, upstream>>

GamesRoute(r) ==
    \E start \in QueryValues, end \in QueryValues :
        /\ Arrive(r, Request("games", start, end, Undefined, <<>>, NoBody))
        /\ Do(r, GamesHandler(start, end))
        /\ UNCHANGED <<env, auth, now, logins, upstream, loginRet>>

MembersRoute(r) ==
    \E teamId \in TeamIds :
        /\ Arrive(r, Request("members", Undefined, Undefined, teamId, <<>>, NoBody))
        /\ Do(r, MembersHandler(teamId))
        /\ UNCHANGED <<env, auth, now, logins, upstream, loginRet>>

SaveScoreRoute(r) ==
    \E gameId \in GameIds, body \in SaveBodies :
        /\ Arrive(r, Request("savescore", Undefined, Undefined, Undefined,
                             gameId, body))
        /\ IF SaveScoreNeedsLogin
           THEN /\ CallLogin(r)
                /\ UNCHANGED <<env, auth, now, upstream>>
           ELSE /\ Do(r, SaveScoreHandler(gameId, body))
                /\ UNCHANGED <<env, auth, now, logins, upstream, loginRet>>


\* as LoginSettle, but a login the external authority refuses ends the Session
LoginSettleEndsSession(r) ==
    /\ pc[r] = "awaitLogin"
    /\ Collected(r)
    /\ \E o \in LoginOutcomes, t \in now..MaxTime :
           LET ret == imlAdminLoginSettle(o, t)
           IN  /\ auth' = IF o.kind = "response" /\ ~ResOk(o.status) THEN InitAuth
                          ELSE AuthAfterLogin(ret)
               /\ now' = IF ret.state = "returned" THEN t ELSE now
               /\ loginRet' = [loginRet EXCEPT ![r] = ret]
               /\ upstream' = [upstream EXCEPT ![r] = o]
    /\ pc' = [pc EXCEPT ![r] = "loginSettled"]
    /\ UNCHANGED <<env, rq, held, logins, calls, reply>>

\* the fetch of imlAdminLogin settles and imlAdminLogin runs to its end
LoginSettle(r) ==
    /\ pc[r] = "awaitLogin"
    /\ Collected(r)
    /\ \E o \in LoginOutcomes, t \in now..MaxTime :
           LET ret == imlAdminLoginSettle(o, t)
           IN  /\ auth' = AuthAfterLogin(ret)
               /\ now' = IF ret.state = "returned" THEN t ELSE now
               /\ loginRet' = [loginRet EXCEPT ![r] = ret]
               /\ upstream' = [upstream EXCEPT ![r] = o]
    /\ pc' = [pc EXCEPT ![r] = "loginSettled"]
    /\ UNCHANGED <<env, rq, held, logins, calls, reply>>

\* as LoginResume, but an error thrown by imlAdminLogin() is not caught: the
\* handler ends without answering
LoginResumeUncaught(r) ==
    /\ pc[r] = "loginSettled"
    /\ rq[r].route = "login"
    /\ IF loginRet[r].state = "returned"
       THEN Do(r, LoginRouteReply(loginRet[r]))
       ELSE /\ pc' = [pc EXCEPT ![r] = "ended"]
            /\ UNCHANGED <<calls, reply>>
    /\ UNCHANGED <<env, auth, now, rq, held, logins, upstream, loginRet>>

\* the login route is resumed after its await of imlAdminLogin()
LoginResume(r) ==
    /\ pc[r] = "loginSettled"
    /\ rq[r].route = "login"
    /\ Do(r, LoginRouteReply(loginRet[r]))
    /\ UNCHANGED <<env, auth, now, rq, held, logins, upstream, loginRet>>


\* as SaveScoreResume, but a failed login is tried again
SaveScoreResumeRetry(r) ==
    /\ pc[r] = "loginSettled"
    /\ rq[r].route = "savescore"
    /\ IF loginRet[r].state = "threw" /\ upstream[r].kind # "none"
       THEN /\ CallLogin(r)
            /\ UNCHANGED <<env, auth, now, rq, held, upstream>>
       ELSE /\ Do(r, SaveScoreHandler(rq[r].gameId, rq[r].body))
            /\ UNCHANGED <<env, auth, now, rq, held, logins, upstream, loginRet>>

\* as SaveScoreResume, but a failed login is ignored and the handler goes on
SaveScoreResumeIgnoringFailure(r) ==
    /\ pc[r] = "loginSettled"
    /\ rq[r].route = "savescore"
    /\ Do(r, SaveScoreHandler(rq[r].gameId, rq[r].body))
    /\ UNCHANGED <<env, auth, now, rq, held, logins, upstream, loginRet>>

\* the score route is resumed after its await of imlAdminLogin()
SaveScoreResume(r) ==
    /\ pc[r] = "loginSettled"
    /\ rq[r].route = "savescore"
    /\ Do(r, IF loginRet[r].state = "threw" THEN Catch(loginRet[r].e)
             ELSE SaveScoreHandler(rq[r].gameId, rq[r].body))
    /\ UNCHANGED <<env, auth, now, rq, held, logins, upstream, loginRet>>


\* as FetchSettle, but a refusal by the external authority drops the Session
FetchSettleDropsSession(r) ==
    /\ pc[r] = "awaitFetch"
    /\ ThreadFree(r)
    /\ \E o \in ApiOutcomes :
           /\ upstream' = [upstream EXCEPT ![r] = o]
           /\ auth' = IF o.kind = "response" /\ o.status = 401 THEN InitAuth
                      ELSE auth
           /\ Do(r, FetchRouteReply(imlFetchSettle(calls[r][Len(calls[r])].path, o)))
    /\ UNCHANGED <<env, now, rq, held, logins, loginRet>>

\* the fetch of imlFetch settles, imlFetch runs to its end and the route answers
FetchSettle(r) ==
    /\ pc[r] = "awaitFetch"
    /\ ThreadFree(r)
    /\ \E o \in ApiOutcomes :
           /\ upstream' = [upstream EXCEPT ![r] = o]
           /\ Do(r, FetchRouteReply(imlFetchSettle(calls[r][Len(calls[r])].path, o)))
    /\ UNCHANGED <<env, auth, now, rq, held, logins, loginRet>>

\* the answered request leaves; its slot is free for the next one
Close(r) ==
    /\ pc[r] = "done"
    /\ pc' = [pc EXCEPT ![r] = "idle"]
    /\ rq' = [rq EXCEPT ![r] = NoRequest]
    /\ held' = [held EXCEPT ![r] = FALSE]
    /\ logins' = [logins EXCEPT ![r] = 0]
    /\ calls' = [calls EXCEPT ![r] = <<>>]
    /\ upstream' = [upstream EXCEPT ![r] = NoOutcome]
    /\ loginRet' = [loginRet EXCEPT ![r] = NoRet]
    /\ reply' = [reply EXCEPT ![r] = <<>>]
    /\ UNCHANGED <<env, auth, now>>

Next ==
    \E r \in Req :
        \/ LoginRoute(r)
        \/ GamesRoute(r)
        \/ MembersRoute(r)
        \/ SaveScoreRoute(r)
        \/ LoginSettle(r)
        \/ LoginResume(r)
        \/ SaveScoreResume(r)
        \/ FetchSettle(r)
        \/ Close(r)

Spec == Init /\ [][Next]_vars

\* the event loop resumes a handler whose awaited imlAdminLogin() has settled,
\* and an answered request leaves; every outbound fetch eventually settles
\* (strong fairness: another slot's answered request can hold the step back)
Fairness ==
    \A r \in Req :
        /\ WF_vars(LoginResume(r))
        /\ WF_vars(SaveScoreResume(r))
        /\ WF_vars(Close(r))
        /\ SF_vars(LoginSettle(r))
        /\ SF_vars(FetchSettle(r))

FairSpec == Spec /\ Fairness

(***************************************************************************)
(* Vocabulary of the properties.                                           *)
(***************************************************************************)
SessionHeld == Truthy(auth.jwtTokenForSPA)

IsLoginCall(c) == c.path = LoginPath
LoginCallsOf(r) == {i \in 1..Len(calls[r]) : IsLoginCall(calls[r][i])}
ForwardCallsOf(r) == {i \in 1..Len(calls[r]) : ~IsLoginCall(calls[r][i])}

\* r's call of imlAdminLogin() has just failed in this step
LoginFailsIn(r) == loginRet[r].state = "none" /\ loginRet'[r].state = "threw"

\* r's call of imlAdminLogin() has just succeeded in this step
LoginSucceedsIn(r) == loginRet[r].state = "none" /\ loginRet'[r].state = "returned"

\* r has been answered, once, with this status
Answered(r, status) ==
    pc[r] = "done" /\ Len(reply[r]) = 1 /\ reply[r][1].status = status

CredentialsSet == ~imlAdminLoginEnv.threw

\* the fetch r awaited through imlFetch failed: rejected or a non-success status
ForwardFailed(r) ==
    /\ pc[r] = "done"
    /\ ForwardCallsOf(r) # {}
    /\ upstream[r].kind = "reject" \/ ~ResOk(upstream[r].status)

\* the message has this part
Contains(message, part) == \E i \in 1..Len(message) : message[i] = part

(***************************************************************************)
(* C1: a failed login() leaves the Session as it was: in every step in     *)
(* which a call of imlAdminLogin() fails (a missing variable, a rejected   *)
(* fetch, a non-success status, a success response without a token), the   *)
(* token, the index token and the acquisition time keep their values.      *)
(***************************************************************************)
C1_FailedLoginKeepsSession ==
    [][\A r \in Req : LoginFailsIn(r) => auth' = auth]_vars

\* a login has failed on a success response without a token while a Session
\* with an index token is held
C1_Witness ==
    \E r \in Req :
        /\ loginRet[r].state = "threw"
        /\ upstream[r] = Response(200, TxtObj)
        /\ auth.jwtTokenForSPA = "T2" /\ auth.jwtTokenIndexForSPA = "I2"

(***************************************************************************)
(* C2: the Session is fully absent (token null, index token null, time 0)  *)
(* or fully present (token set, acquisition time recorded), in every       *)
(* reachable state.                                                        *)
(***************************************************************************)
C2_SessionAbsentOrPresent ==
    \/ auth = InitAuth
    \/ Truthy(auth.jwtTokenForSPA) /\ auth.loggedInAt \in 1..MaxTime

\* a Session with an index token is held, and in another slot a login has
\* since failed on a success response with an empty token
C2_Witness ==
    /\ auth.jwtTokenForSPA = "T2" /\ auth.jwtTokenIndexForSPA = "I2"
    /\ \E r \in Req : /\ upstream[r] = Response(200, TxtEmptyTok)
                      /\ loginRet[r].state = "threw"

(***************************************************************************)
(* C3: a score submission whose gameId is not numeric is answered 400      *)
(* "Invalid gameId" and issues no outbound call, whether or not a Session  *)
(* is held when it arrives.                                                *)
(***************************************************************************)
C3_InvalidGameIdNoOutboundCall ==
    \A r \in Req :
        rq[r].route = "savescore" /\ ~NumberIsFinite(ToNumber(rq[r].gameId))
        => /\ calls[r] = <<>>
           /\ pc[r] = "done"
              => reply[r] = << [status |-> 400,
                                body |-> [ok |-> FALSE,
                                          error |-> <<"Invalid gameId">>]] >>

(***************************************************************************)
(* C4: a games listing without start or without end is answered 400 and    *)
(* issues no outbound call, in every configuration.                        *)
(***************************************************************************)
C4_MissingRangeIs400 ==
    \A r \in Req :
        rq[r].route = "games" /\ (~Truthy(rq[r].start) \/ ~Truthy(rq[r].end))
        => /\ calls[r] = <<>>
           /\ Answered(r, 400)

(***************************************************************************)
(* C4, amended: a games listing without start or without end issues no     *)
(* outbound call; it is answered 400 when IML_NETWORK_ID is set and 500     *)
(* with the missing-variable message when it is not.                       *)
(***************************************************************************)
C4_MissingRangeIs400WhenConfigured ==
    \A r \in Req :
        rq[r].route = "games" /\ (~Truthy(rq[r].start) \/ ~Truthy(rq[r].end))
        => /\ calls[r] = <<>>
           /\ IF Truthy(env["IML_NETWORK_ID"])
              THEN /\ Answered(r, 400)
                   /\ reply[r][1].body.ok = FALSE
              ELSE /\ Answered(r, 500)
                   /\ reply[r][1].body =
                          [ok |-> FALSE,
                           error |-> <<"Missing env var: ", "IML_NETWORK_ID">>]

\* a games listing with start and without end has been answered 400
C4_Witness ==
    \E r \in Req :
        /\ rq[r].route = "games" /\ Truthy(rq[r].start) /\ ~Truthy(rq[r].end)
        /\ Answered(r, 400)

(***************************************************************************)
(* C5: a score submission that arrives while no Session is held calls      *)
(* login() exactly once, and its score call is issued only after that      *)
(* login has returned successfully, as the second of exactly two outbound  *)
(* calls; a valid one then does issue the score call.  A score submission  *)
(* that arrives while a Session is held never calls login().               *)
(***************************************************************************)
C5_OneLoginBeforeScoreCall ==
    \A r \in Req :
        rq[r].route = "savescore"
        => /\ held[r] => logins[r] = 0 /\ LoginCallsOf(r) = {}
           /\ ~held[r]
              => /\ logins[r] = 1
                 /\ LoginCallsOf(r) \subseteq {1}
                 /\ ForwardCallsOf(r) # {}
                    => /\ Len(calls[r]) = 2
                       /\ LoginCallsOf(r) = {1}
                       /\ calls[r][2].path = SaveScorePath
                       /\ loginRet[r].state = "returned"
                 /\ /\ loginRet[r].state = "returned"
                    /\ pc[r] \in {"awaitFetch", "done"}
                    /\ SaveScoreHandler(rq[r].gameId, rq[r].body).kind = "fetch"
                    => ForwardCallsOf(r) = {2}

\* a valid score submission that arrived without a Session has been answered
\* after a login call and a score call
C5_Witness ==
    \E r \in Req :
        /\ rq[r].route = "savescore" /\ ~held[r] /\ Answered(r, 200)
        /\ Len(calls[r]) = 2
        /\ IsLoginCall(calls[r][1]) /\ calls[r][2].path = SaveScorePath

(***************************************************************************)
(* C6: a request issues at most one outbound call, or two when it is a     *)
(* score submission that logged in first (the login call, then the score   *)
(* call); no call is issued twice, and once a call of the request has      *)
(* failed no further call is issued for it.                                *)
(***************************************************************************)
C6_AtMostOneCallNoRetry ==
    \A r \in Req :
        /\ Cardinality(LoginCallsOf(r)) <= 1
        /\ Cardinality(ForwardCallsOf(r)) <= 1
        /\ rq[r].route # "savescore" => Len(calls[r]) <= 1
        /\ Len(calls[r]) = 2
           => /\ rq[r].route = "savescore" /\ ~held[r]
              /\ IsLoginCall(calls[r][1]) /\ calls[r][2].path = SaveScorePath
        /\ loginRet[r].state = "threw" => ForwardCallsOf(r) = {}
        /\ \/ upstream[r].kind = "reject"
           \/ upstream[r].kind = "response" /\ ~ResOk(upstream[r].status)
           => pc[r] \in {"loginSettled", "done"}

\* a score submission whose login call was refused has been answered and
\* has issued that one call only
C6_Witness ==
    \E r \in Req :
        /\ rq[r].route = "savescore" /\ pc[r] = "done"
        /\ upstream[r] = Response(401, TxtObj)
        /\ Len(calls[r]) = 1 /\ IsLoginCall(calls[r][1])

(***************************************************************************)
(* C7: logins are not de-duplicated.  Every request that calls login()     *)
(* with the credentials configured issues its own login call, whatever     *)
(* other logins are in flight, and every login that succeeds replaces the  *)
(* Session by its own result, also when another login has set it since.    *)
(***************************************************************************)
C7_ConcurrentLoginsLastWins ==
    /\ [](\A r \in Req :
              logins[r] = 1 /\ CredentialsSet
              => Len(calls[r]) >= 1 /\ IsLoginCall(calls[r][1]))
    /\ [][\A r \in Req : LoginSucceedsIn(r) => auth' = loginRet'[r].a]_vars

\* two score submissions both arrived without a Session, both logins have
\* succeeded with different results, and the Session is the one of them
C7_Witness ==
    \E r1 \in Req, r2 \in Req :
        /\ r1 # r2
        /\ rq[r1].route = "savescore" /\ rq[r2].route = "savescore"
        /\ ~held[r1] /\ ~held[r2]
        /\ loginRet[r1].state = "returned" /\ loginRet[r2].state = "returned"
        /\ loginRet[r1].a.jwtTokenForSPA = "T1"
        /\ loginRet[r2].a.jwtTokenForSPA = "T2"
        /\ auth = loginRet[r2].a

(***************************************************************************)
(* C8: when the login endpoint returns token T1 and no index token, the    *)
(* login route answers {ok: true, jwtTokenIndexForSPA: null} (and the      *)
(* index token when there is one); every call issued through imlFetch      *)
(* while a Session is held carries Authorization: Bearer <its token>.      *)
(***************************************************************************)
C8_LoginReplyAndBearer ==
    /\ [](\A r \in Req :
              /\ pc[r] = "done" /\ rq[r].route = "login"
              /\ upstream[r] \in {Response(200, TxtT1), Response(200, TxtT2)}
              => reply[r] =
                   << [status |-> 200,
                       body |-> [ok |-> TRUE,
                                 jwtTokenIndexForSPA |->
                                     IF upstream[r].text = TxtT1 THEN Null
                                     ELSE "I2"]] >>)
    /\ [][\A r \in Req :
              /\ Len(calls'[r]) = Len(calls[r]) + 1
              /\ ~IsLoginCall(calls'[r][Len(calls'[r])])
              /\ SessionHeld
              => calls'[r][Len(calls'[r])].headers.Authorization =
                     <<"Bearer ", auth.jwtTokenForSPA>>]_vars

\* the login route has answered a login that returned T1, and a games
\* listing issued afterwards carries Bearer T1
C8_Witness ==
    \E r1 \in Req, r2 \in Req :
        /\ rq[r1].route = "login" /\ upstream[r1] = Response(200, TxtT1)
        /\ Answered(r1, 200)
        /\ reply[r1][1].body = [ok |-> TRUE, jwtTokenIndexForSPA |-> Null]
        /\ rq[r2].route = "games" /\ held[r2] /\ Len(calls[r2]) = 1
        /\ calls[r2][1].headers.Authorization = <<"Bearer ", "T1">>

(***************************************************************************)
(* C9: every error thrown in a handler is answered 500 with                *)
(* {ok: false, error: <message>}: a missing variable, a failed login, a    *)
(* failed call through imlFetch.  For a non-success external status the    *)
(* message holds that status and the raw body, and the local status is     *)
(* 500, not the external one.                                              *)
(***************************************************************************)
C9_ThrownErrorsAre500 ==
    \A r \in Req :
        pc[r] = "done"
        => /\ loginRet[r].state = "threw"
              => reply[r] = << [status |-> 500,
                                body |-> [ok |-> FALSE,
                                          error |-> loginRet[r].e.message]] >>
           /\ rq[r].route = "games" /\ ~Truthy(env["IML_NETWORK_ID"])
              => reply[r] =
                   << [status |-> 500,
                       body |-> [ok |-> FALSE,
                                 error |-> <<"Missing env var: ",
                                             "IML_NETWORK_ID">>]] >>
           /\ ForwardFailed(r)
              => /\ Answered(r, 500)
                 /\ DOMAIN reply[r][1].body = {"ok", "error"}
                 /\ reply[r][1].body.ok = FALSE
                 /\ upstream[r].kind = "response"
                    => /\ reply[r][1].status # upstream[r].status
                       /\ Contains(reply[r][1].body.error,
                                   ToString(upstream[r].status))
                       /\ Contains(reply[r][1].body.error, upstream[r].text)

\* a team roster request whose external call was refused with 401 and an
\* HTML body has been answered
C9_Witness ==
    \E r \in Req :
        /\ rq[r].route = "members" /\ pc[r] = "done"
        /\ upstream[r] = Response(401, TxtHtml)

(***************************************************************************)
(* C10: every response, on every route including the login route, has the  *)
(* shape {ok: true, data} or the shape {ok: false, error}.                 *)
(***************************************************************************)
C10_TwoShapesOnEveryRoute ==
    \A r \in Req : \A i \in 1..Len(reply[r]) :
        LET b == reply[r][i].body
        IN  \/ DOMAIN b = {"ok", "data"} /\ b.ok = TRUE
            \/ DOMAIN b = {"ok", "error"} /\ b.ok = FALSE

(***************************************************************************)
(* C10, amended: every response of the games, roster and score routes has  *)
(* the shape {ok: true, data} or {ok: false, error}; a response of the     *)
(* login route has the shape {ok: true, jwtTokenIndexForSPA} or            *)
(* {ok: false, error}.                                                     *)
(***************************************************************************)
C10_ShapesPerRoute ==
    \A r \in Req : \A i \in 1..Len(reply[r]) :
        LET b == reply[r][i].body
        IN  \/ DOMAIN b = {"ok", "error"} /\ b.ok = FALSE
            \/ /\ rq[r].route # "login"
               /\ DOMAIN b = {"ok", "data"} /\ b.ok = TRUE
            \/ /\ rq[r].route = "login"
               /\ DOMAIN b = {"ok", "jwtTokenIndexForSPA"} /\ b.ok = TRUE

\* the login route has answered a successful login that returned an index
\* token, while a team roster request is in flight
C10_Witness ==
    \E r1 \in Req, r2 \in Req :
        /\ rq[r1].route = "login" /\ Answered(r1, 200)
        /\ reply[r1][1].body = [ok |-> TRUE, jwtTokenIndexForSPA |-> "I2"]
        /\ rq[r2].route = "members" /\ pc[r2] = "awaitFetch"

(***************************************************************************)
(* C11: the Session changes only in a step in which a call of              *)
(* imlAdminLogin() returns successfully.  A step that issues a call        *)
(* through imlFetch, or in which such a call settles (with any status, or  *)
(* rejected), leaves the Session as it was.  A games listing or a team     *)
(* roster request never calls imlAdminLogin() and issues no login call;    *)
(* when no Session is held its one call carries no Authorization header.   *)
(***************************************************************************)
C11_OnlyLoginMutatesSession ==
    /\ [](\A r \in Req :
              rq[r].route \in {"games", "members"}
              => /\ logins[r] = 0
                 /\ LoginCallsOf(r) = {}
                 /\ loginRet[r] = NoRet
                 /\ ~held[r] /\ calls[r] # <<>>
                    => calls[r][1].headers.Authorization = <<>>)
    /\ [][/\ auth' # auth => \E r \in Req : LoginSucceedsIn(r)
          /\ \A r \in Req :
                 \/ /\ Len(calls'[r]) = Len(calls[r]) + 1
                    /\ ~IsLoginCall(calls'[r][Len(calls'[r])])
                 \/ pc[r] = "awaitFetch" /\ pc'[r] # "awaitFetch"
                 => auth' = auth]_vars

\* a team roster request that arrived without a Session sent its call without
\* an Authorization header, was refused with 401 and has been answered, and a
\* Session acquired in the meantime by another request is still held
C11_Witness ==
    \E r \in Req :
        /\ rq[r].route = "members" /\ ~held[r] /\ pc[r] = "done"
        /\ calls[r][1].headers.Authorization = <<>>
        /\ upstream[r] = Response(401, TxtHtml)
        /\ auth.jwtTokenForSPA = "T1"

(***************************************************************************)
(* C12: a successful login() replaces the Session wholesale.  In every     *)
(* step in which a call of imlAdminLogin() returns, whatever the Session   *)
(* was, the new Session has exactly the three fields: the token of the     *)
(* response, the index token of the response or null when it has none,     *)
(* and the time Date.now() returned in this login.                         *)
(***************************************************************************)
C12_LoginReplacesSessionWholesale ==
    [][\A r \in Req :
           LoginSucceedsIn(r)
           => LET data == JsonParse(upstream'[r].text).value
              IN  /\ DOMAIN auth' = {"jwtTokenForSPA", "jwtTokenIndexForSPA",
                                     "loggedInAt"}
                  /\ auth'.jwtTokenForSPA = data.jwtTokenForSPA
                  /\ auth'.jwtTokenIndexForSPA =
                         (IF data.jwtTokenIndexForSPA = Undefined THEN Null
                          ELSE data.jwtTokenIndexForSPA)
                  /\ auth'.loggedInAt = now'
                  /\ loginRet'[r].a = auth']_vars

\* a login at time 1 returned a token and an index token; a later login, at
\* time 2, returned a token and no index token, and the Session now holds
\* that token, no index token, and time 2
C12_Witness ==
    \E r1 \in Req, r2 \in Req :
        /\ loginRet[r1] = LoginReturned(Auth("T2", "I2", 1))
        /\ loginRet[r2] = LoginReturned(Auth("T1", Null, 2))
        /\ upstream[r2] = Response(200, TxtT1)
        /\ pc[r2] = "loginSettled"
        /\ auth = Auth("T1", Null, 2)

(***************************************************************************)
(* C13: once a Session is present it is never destroyed.  No step takes    *)
(* the Session from present to absent: when the token is set before a      *)
(* step it is set after it, so from the first successful login on the      *)
(* token is non-null in every state; the Session goes from absent to       *)
(* present and from present to present only.                               *)
(***************************************************************************)
C13_SessionNeverDestroyed ==
    [][/\ SessionHeld => SessionHeld' /\ auth'.jwtTokenForSPA # Null
       /\ auth' # auth => SessionHeld']_vars

\* a request to the login route arrived while a Session was held, its login
\* was refused by the external authority, it has been answered 500, and the
\* Session is still held
C13_Witness ==
    \E r \in Req :
        /\ rq[r].route = "login" /\ held[r] /\ Answered(r, 500)
        /\ upstream[r] = Response(401, TxtObj)
        /\ SessionHeld /\ auth.jwtTokenForSPA = "T1"

(***************************************************************************)
(* C14: when IML_EMAIL or IML_PASSWORD is unset or empty, a call of        *)
(* imlAdminLogin() issues no outbound call and throws "Missing env var:    *)
(* <name>", and the login route answers 500 with that message.  When both  *)
(* are set, a call of imlAdminLogin() issues the login call whether or     *)
(* not IML_SCHOOL_ID is set (an unset one is sent as the empty string),    *)
(* and never fails with a missing-variable message.                        *)
(***************************************************************************)
C14_MissingCredentialFailsBeforeCall ==
    \A r \in Req :
        logins[r] = 1
        => IF ~Truthy(env["IML_EMAIL"]) \/ ~Truthy(env["IML_PASSWORD"])
           THEN LET name == IF ~Truthy(env["IML_EMAIL"]) THEN "IML_EMAIL"
                            ELSE "IML_PASSWORD"
                IN  /\ calls[r] = <<>>
                    /\ loginRet[r].state = "threw"
                    /\ loginRet[r].e.message = <<"Missing env var: ", name>>
                    /\ rq[r].route = "login" /\ pc[r] = "done"
                       => reply[r] =
                            << [status |-> 500,
                                body |-> [ok |-> FALSE,
                                          error |-> <<"Missing env var: ",
                                                      name>>]] >>
           ELSE /\ Len(calls[r]) >= 1 /\ IsLoginCall(calls[r][1])
                /\ calls[r][1].body.schoolId =
                       (IF env["IML_SCHOOL_ID"] = Undefined THEN ""
                        ELSE env["IML_SCHOOL_ID"])
                /\ loginRet[r].state = "threw"
                   => Head(loginRet[r].e.message) # "Missing env var: "

\* with IML_PASSWORD empty, the login route has been answered 500 with the
\* missing-variable message and no call was issued
C14_Witness ==
    \E r \in Req :
        /\ env["IML_PASSWORD"] = ""
        /\ rq[r].route = "login" /\ Answered(r, 500)
        /\ reply[r][1].body.error = <<"Missing env var: ", "IML_PASSWORD">>
        /\ calls[r] = <<>>

(***************************************************************************)
(* C15: when a call through imlFetch settles with a success status, the    *)
(* route answers with the parsed value of the body whenever the body is    *)
(* valid JSON, the literal null included, and with the raw text only when  *)
(* the body cannot be parsed.                                              *)
(***************************************************************************)
C15_ParsedJsonWheneverValid ==
    \A r \in Req :
        /\ pc[r] = "done" /\ ForwardCallsOf(r) # {}
        /\ upstream[r].kind = "response" /\ ResOk(upstream[r].status)
        => LET parsed == JsonParse(upstream[r].text)
           IN  reply[r] =
                 << [status |-> 200,
                     body |-> [ok |-> TRUE,
                               data |-> IF parsed.threw
                                        THEN JStr(upstream[r].text)
                                        ELSE parsed.value]] >>

(***************************************************************************)
(* C16: a score submission (with a JSON object as its body) whose gameId   *)
(* is not a finite number or whose body has no gameType never issues the   *)
(* score call.  When a Session is held as it arrives it is answered 400    *)
(* at once, with no call at all.  When no Session is held it logs in       *)
(* first: it is answered 500 with the login's message when that login      *)
(* fails, and 400 when that login succeeds.                                *)
(***************************************************************************)
C16_InvalidScoreNeverForwarded ==
    \A r \in Req :
        /\ rq[r].route = "savescore"
        /\ \/ ~NumberIsFinite(ToNumber(rq[r].gameId))
           \/ rq[r].body.gameType = JUndef
        => LET text == IF ~NumberIsFinite(ToNumber(rq[r].gameId))
                       THEN "Invalid gameId" ELSE "Missing gameType (number)"
               bad == << [status |-> 400,
                          body |-> [ok |-> FALSE, error |-> <<text>>]] >>
           IN  /\ \A i \in 1..Len(calls[r]) : calls[r][i].path # SaveScorePath
               /\ held[r] => pc[r] = "done" /\ calls[r] = <<>> /\ reply[r] = bad
               /\ ~held[r] /\ pc[r] = "done"
                  => IF loginRet[r].state = "threw"
                     THEN reply[r] =
                            << [status |-> 500,
                                body |-> [ok |-> FALSE,
                                          error |-> loginRet[r].e.message]] >>
                     ELSE reply[r] = bad

\* a score submission with a numeric gameId and no gameType arrived while no
\* Session was held; its login call was refused and it has been answered 500
C16_Witness ==
    \E r \in Req :
        /\ rq[r].route = "savescore" /\ ~held[r]
        /\ rq[r].gameId = <<"4", "2">> /\ rq[r].body.gameType = JUndef
        /\ upstream[r] = Response(401, TxtObj)
        /\ Len(calls[r]) = 1 /\ IsLoginCall(calls[r][1])
        /\ Answered(r, 500)

(***************************************************************************)
(* C17: under every interleaving, a score call is issued only while a      *)
(* Session is held, and it carries Authorization: Bearer <the token of     *)
(* the Session at that instant>; no score call is ever without an          *)
(* Authorization header, and a score submission whose login failed issues  *)
(* no score call.                                                          *)
(***************************************************************************)
C17_ScoreCallAlwaysAuthenticated ==
    /\ [](\A r \in Req :
              /\ \A i \in 1..Len(calls[r]) :
                     calls[r][i].path = SaveScorePath
                     => /\ Len(calls[r][i].headers.Authorization) = 2
                        /\ calls[r][i].headers.Authorization[1] = "Bearer "
                        /\ Truthy(calls[r][i].headers.Authorization[2])
              /\ rq[r].route = "savescore" /\ loginRet[r].state = "threw"
                 => \A i \in 1..Len(calls[r]) : calls[r][i].path # SaveScorePath)
    /\ [][\A r \in Req :
              /\ Len(calls'[r]) = Len(calls[r]) + 1
              /\ calls'[r][Len(calls'[r])].path = SaveScorePath
              => /\ SessionHeld
                 /\ calls'[r][Len(calls'[r])].headers.Authorization =
                        <<"Bearer ", auth.jwtTokenForSPA>>]_vars

\* a score submission that arrived without a Session logged in, got token
\* T1 and issued its score call with Bearer T1; while that call is in
\* flight another login has replaced the Session, whose token is now T2
C17_Witness ==
    \E r \in Req :
        /\ rq[r].route = "savescore" /\ ~held[r] /\ pc[r] = "awaitFetch"
        /\ loginRet[r].state = "returned"
        /\ Len(calls[r]) = 2 /\ calls[r][2].path = SaveScorePath
        /\ calls[r][2].headers.Authorization = <<"Bearer ", "T1">>
        /\ auth.jwtTokenForSPA = "T2"

(***************************************************************************)
(* C18: a request is answered at most once: a response is only ever sent   *)
(* for a request that has none yet, and the handler is then finished, so   *)
(* an early 400 is followed by no second response.  While an outbound call *)
(* of the request is outstanding the request has no response, and stays    *)
(* so for as long as the call does not settle.  When every outbound call   *)
(* eventually settles (with a response of any status, or rejected), every  *)
(* request is eventually answered, exactly once.                           *)
(***************************************************************************)
C18_AnsweredExactlyOnce ==
    /\ [](\A r \in Req :
              /\ Len(reply[r]) <= 1
              /\ pc[r] = "done" <=> Len(reply[r]) = 1
              /\ pc[r] \in {"awaitLogin", "awaitFetch"} => reply[r] = <<>>)
    /\ [][\A r \in Req :
              /\ reply'[r] # reply[r] /\ reply'[r] # <<>>
                 => reply[r] = <<>> /\ Len(reply'[r]) = 1 /\ pc'[r] = "done"
              /\ pc[r] \in {"awaitLogin", "awaitFetch"} /\ pc'[r] # pc[r]
                 => upstream'[r].kind # "none" /\ upstream'[r] # upstream[r]]_vars
    /\ \A r \in Req : pc[r] # "idle" ~> pc[r] = "done" /\ Len(reply[r]) = 1

\* a games listing without its end parameter has been answered 400, once,
\* while the login call of another request is outstanding and that request
\* has no response
C18_Witness ==
    \E r \in Req, q \in Req :
        /\ rq[r].route = "games" /\ ~Truthy(rq[r].end)
        /\ pc[r] = "done" /\ Len(reply[r]) = 1 /\ reply[r][1].status = 400
        /\ pc[q] = "awaitLogin" /\ reply[q] = <<>>
        /\ Len(calls[q]) = 1

====
